---- MODULE Spec2Model ----
(***************************************************************************)
(* Model of hooks/tk-multi-publish2/common/alembic_publisher.py:           *)
(* AlembicCachePublishPlugin, the publish hook the host drives through     *)
(* accept -> validate -> publish -> finalize for one cache.alembic item.   *)
(*                                                                         *)
(* Python values are records tagged with their type, so that None, ints    *)
(* and strings can be compared.  A folder string is the sequence of its    *)
(* path components ("" is the empty sequence); a file path string carries  *)
(* in addition the dot-separated fields of its file name.                  *)
(***************************************************************************)
EXTENDS Integers, Sequences, FiniteSets

VARIABLES
    item,       \* item.properties of the item being published (a dict)
    parent,     \* item.parent.properties (a dict)
    fs,         \* the files on disk: file path -> content
    dirs,       \* the folders on disk
    registry,   \* the published-file records register_publish has created
    log,        \* what this run wrote to the logger, in order
    phase,      \* the host's position in the item's lifecycle
    result,     \* what the last callback returned
    raised,     \* the call whose exception aborted publish, or "none"
    run,        \* number of the current publish run
    settings,   \* the settings the host hands to every callback (a dict)
    completed   \* how many lifecycles ran accept..finalize without an error

vars == <<item, parent, fs, dirs, registry, log, phase, result, raised, run,
          settings, completed>>

(* ------------------------------ bounds -------------------------------- *)

MaxVersion == 2
MaxRuns == 2

(* --------------------------- Python values ---------------------------- *)

None == [type |-> "NoneType"]
PyInt(n) == [type |-> "int", value |-> n]
Folder(parts) == [type |-> "str", parts |-> parts]
FilePath(parts, fields) == [type |-> "str", parts |-> parts, fields |-> fields]
EmptyDict == [type |-> "dict"]

\* dict.get(key): the value, or None when the key is absent
Get(d, key) == IF key \in DOMAIN d THEN d[key] ELSE None

\* d[key] = value
Put(d, key, value) ==
    [k \in DOMAIN d \cup {key} |-> IF k = key THEN value ELSE d[k]]

\* Python truthiness: None, False, 0, "" and {} are false
Truthy(v) ==
    CASE v.type = "NoneType" -> FALSE
      [] v.type = "bool" -> v.value
      [] v.type = "int" -> v.value # 0
      [] v.type = "str" -> ("fields" \in DOMAIN v) \/ v.parts # <<>>
      [] v.type = "dict" -> DOMAIN v # {"type"}

IsFilePath(v) == v.type = "str" /\ "fields" \in DOMAIN v

(* ------------------- host and library calls the hook makes ------------ *)

\* the version a file-name field such as "v002" spells, None for any other
VersionOfField(field) ==
    CASE field = "v000" -> PyInt(0)
      [] field = "v001" -> PyInt(1)
      [] field = "v002" -> PyInt(2)
      [] field = "v003" -> PyInt(3)
      [] OTHER -> None

\* index of the version field of a file name, 0 when it has none
VersionIndex(fields) ==
    IF \E i \in 1..Len(fields) : VersionOfField(fields[i]) # None
    THEN CHOOSE i \in 1..Len(fields) : VersionOfField(fields[i]) # None
    ELSE 0

\* publisher.util.get_file_path_components(path)
get_file_path_components(path) ==
    LET i == VersionIndex(path.fields)
        n == Len(path.fields)
    IN  [folder    |-> Folder(path.parts),
         filename  |-> path.fields,
         extension |-> path.fields[n],
         prefix    |-> IF i = 0 THEN SubSeq(path.fields, 1, n - 1)
                                ELSE SubSeq(path.fields, 1, i - 1),
         version   |-> IF i = 0 THEN None ELSE VersionOfField(path.fields[i])]

\* os.path.join(folder, filename)
JoinFile(folder, filename) == FilePath(folder.parts, filename)

\* ensure_folder_exists(folder): the folder and every missing ancestor
ensure_folder_exists(d, folder) ==
    d \cup {SubSeq(folder.parts, 1, k) : k \in 1..Len(folder.parts)}

\* copy_file(src, dst) refuses (raises) when src is missing or is dst itself
CopyRefused(f, src, dst) == src \notin DOMAIN f \/ src = dst

WriteFile(f, p, content) ==
    [q \in DOMAIN f \cup {p} |-> IF q = p THEN content ELSE f[q]]

\* copy_file(src, dst) when it succeeds
copy_file(f, src, dst) == WriteFile(f, dst, f[src])

\* what a delete can come to: the file is removed; the removal fails and
\* the failure is swallowed (the call returns); the failure is raised
DeleteOutcomes == {"deleted", "swallowed", "raised"}

\* safe_delete_file(path): removes the file if it exists, unless the
\* removal fails, which leaves the disk as it is
safe_delete_file(f, path, outcome) ==
    IF outcome = "deleted" THEN [q \in DOMAIN f \ {path} |-> f[q]] ELSE f

\* sgtk.util.register_publish(**args): creates the record, returns it
register_publish(reg, args) ==
    [type |-> "dict", id |-> PyInt(100 + Len(reg)), args |-> args]

(* ------------------------------ the hook ------------------------------ *)

\* a bug: a path that is present but None or empty is rejected too
accept_result_truthy(props) ==
    IF ~Truthy(Get(props, "path"))
    THEN [accepted |-> FALSE]
    ELSE [accepted |-> TRUE, required |-> FALSE, enabled |-> TRUE]

\* accept(): the dictionary returned
accept_result(props) ==
    IF "path" \notin DOMAIN props
    THEN [accepted |-> FALSE]
    ELSE [accepted |-> TRUE, required |-> FALSE, enabled |-> TRUE]

\* accept(): what it logs
accept_log(props) ==
    IF "path" \notin DOMAIN props
    THEN <<[level |-> "error", msg |-> "Unknown file path for alembic cache."]>>
    ELSE <<>>

\* validate(): the value returned
validate_result(props) == [type |-> "bool", value |-> TRUE]

\* a bug: the parent's folder is tested against None instead of for truth
copies_unless_none(publish_folder) == publish_folder # None

\* publish(): "if publish_folder:", whether the cache is copied
copies(publish_folder) == Truthy(publish_folder)

\* a bug: the "cache" level of the fixed subpath is left out
alembic_publish_folder_flat(publish_folder) ==
    Folder(publish_folder.parts \o <<"alembic">>)

\* publish(): os.path.join(publish_folder, "cache", "alembic")
alembic_publish_folder(publish_folder) ==
    Folder(publish_folder.parts \o <<"cache", "alembic">>)

\* publish(): the path that is published, the copy's destination or the source
publish_path(path, publish_folder) ==
    IF copies(publish_folder)
    THEN JoinFile(alembic_publish_folder(publish_folder),
                  get_file_path_components(path).filename)
    ELSE path

\* a bug: source and destination swapped
copy_args_swapped(path, dst) == <<dst, path>>

\* publish(): the arguments of copy_file, source first
copy_args(path, dst) == <<path, dst>>

\* a bug: file_info is not updated for the new publish path
file_info_stale(path, publish_folder) == get_file_path_components(path)

\* publish(): file_info as it stands after the copy branch
file_info(path, publish_folder) ==
    IF copies(publish_folder)
    THEN get_file_path_components(publish_path(path, publish_folder))
    ELSE get_file_path_components(path)

\* publish(): the parent's publish version, else the file name's
publish_version(par, info) ==
    IF ~Truthy(Get(par, "publish_version"))
    THEN info.version
    ELSE Get(par, "publish_version")

\* publish(): properties.get("sg_publish_data", {}), the default only for
\* a missing key
parent_publish_data(par) ==
    IF "sg_publish_data" \in DOMAIN par THEN par["sg_publish_data"] ELSE EmptyDict

\* publish(): .get("id") raises AttributeError on a value that is no dict
parent_publish_id_raises(par) == parent_publish_data(par).type # "dict"

\* publish(): item.parent.properties.get("sg_publish_data", {}).get("id")
parent_publish_id(par) == Get(parent_publish_data(par), "id")

\* publish(): the arguments of register_publish
publish_args(path, par, sett) ==
    LET publish_folder == Get(par, "publish_folder")
        info == file_info(path, publish_folder)
    IN  [tk |-> "sgtk",
         context |-> "item.context",
         comment |-> "item.description",
         path |-> publish_path(path, publish_folder),
         name |-> info.prefix \o <<info.extension>>,
         version_number |-> publish_version(par, info),
         thumbnail_path |-> "item.thumbnail",
         published_file_type |-> sett["Publish Type"],
         dependency_ids |-> <<parent_publish_id(par)>>]

\* publish(): settings["Publish Type"] raises KeyError without that setting
publish_args_raises(sett) == "Publish Type" \notin DOMAIN sett

\* a bug: the record is registered before the file is copied
publish_steps_register_first(publish_folder) ==
    IF copies(publish_folder)
    THEN <<"ensure_folder_exists", "parent_publish_id", "publish_args",
           "register_publish", "copy_file", "file_info", "write_back">>
    ELSE <<"parent_publish_id", "publish_args", "register_publish", "write_back">>

\* publish(): the calls that change state, in the order the code makes them
publish_steps(publish_folder) ==
    IF copies(publish_folder)
    THEN <<"ensure_folder_exists", "copy_file", "file_info", "parent_publish_id",
           "publish_args", "register_publish", "write_back">>
    ELSE <<"parent_publish_id", "publish_args", "register_publish", "write_back">>

\* publish(): the three properties written after register_publish returned
write_back(props, entity, path, par) ==
    LET info == file_info(path, Get(par, "publish_folder"))
    IN  Put(Put(Put(props, "sg_publish_data", entity),
                "publish_version", publish_version(par, info)),
            "publish_folder", info.folder)

\* one call of publish() on the state s; fault names the call that fails
ApplyStep(s, step, path, par, fault) ==
    LET publish_folder == Get(par, "publish_folder")
        dst == publish_path(path, publish_folder)
    IN  CASE step = "ensure_folder_exists" ->
               IF fault = "ensure_folder_exists"
               THEN [s EXCEPT !.raised = "ensure_folder_exists"]
               ELSE [s EXCEPT !.dirs = ensure_folder_exists(
                                  @, alembic_publish_folder(publish_folder))]
          [] step = "copy_file" ->
               LET a == copy_args(path, dst)
                   t == [s EXCEPT !.log = Append(@,
                            [level |-> "info", msg |-> "Copying to publish folder"])]
               IN  IF CopyRefused(s.fs, a[1], a[2]) \/ fault = "copy_file"
                   THEN [t EXCEPT !.raised = "copy_file"]
                   ELSE IF fault = "copy_file_partial"
                   THEN [t EXCEPT !.raised = "copy_file",
                                  !.fs = WriteFile(@, a[2], "partial")]
                   ELSE [t EXCEPT !.fs = copy_file(@, a[1], a[2])]
          [] step = "file_info" ->
               IF fault = "file_info"
               THEN [s EXCEPT !.raised = "get_file_path_components"]
               ELSE s
          [] step = "publish_args" ->
               IF fault = "get_thumbnail_as_path"
               THEN [s EXCEPT !.raised = "get_thumbnail_as_path"]
               ELSE IF publish_args_raises(s.settings)
               THEN [s EXCEPT !.raised = "settings"]
               ELSE s
          [] step = "parent_publish_id" ->
               IF parent_publish_id_raises(par)
               THEN [s EXCEPT !.raised = "parent_publish_id"]
               ELSE s
          [] step = "register_publish" ->
               LET t == [s EXCEPT !.log = Append(@,
                            [level |-> "debug", msg |-> "Publishing"])]
               IN  IF fault = "register_publish"
                   THEN [t EXCEPT !.raised = "register_publish"]
                   ELSE [t EXCEPT !.registry = Append(@,
                            register_publish(@, publish_args(path, par, s.settings)))]
          [] step = "write_back" ->
               [s EXCEPT !.item = write_back(@, s.registry[Len(s.registry)],
                                             path, par)]

\* publish(): the steps in order, up to the first that raises
RECURSIVE RunSteps(_, _, _, _, _)
RunSteps(s, steps, path, par, fault) ==
    IF steps = <<>> \/ s.raised # "none"
    THEN s
    ELSE RunSteps(ApplyStep(s, Head(steps), path, par, fault),
                  Tail(steps), path, par, fault)

\* publish(): the whole call
publish_outcome(s, par, fault) ==
    LET path == s.item["path"]
    IN  IF ~IsFilePath(path) \/ fault = "get_file_path_components"
        THEN [s EXCEPT !.raised = "get_file_path_components"]
        ELSE RunSteps(s, publish_steps(Get(par, "publish_folder")),
                      path, par, fault)

\* finalize(): the path handed to safe_delete_file
finalize_path(props) == props["path"]

(* ------------------------------ the inputs ---------------------------- *)

SourceFolders == {<<"work">>, <<"pub", "cache", "alembic">>}
FileNames == {<<"sim", "v000", "abc">>, <<"sim", "v002", "abc">>, <<"sim", "abc">>}
SourcePaths == {FilePath(d, f) : d \in SourceFolders, f \in FileNames}
Contents == {"geo_a", "geo_b"}
Faults == {"none", "get_file_path_components", "ensure_folder_exists",
           "copy_file", "copy_file_partial", "file_info",
           "get_thumbnail_as_path", "register_publish"}

\* the settings: the publish type at its default, or the setting missing
SettingsStates ==
    {EmptyDict, Put(EmptyDict, "Publish Type", "Alembic Cache")}

Absent == [has |-> FALSE]
Optional(S) == {Absent} \cup {[has |-> TRUE, v |-> x] : x \in S}
MakeDict(opts) == [k \in {j \in DOMAIN opts : opts[j].has} |-> opts[k].v]

ParentStates ==
    {MakeDict([publish_folder |-> pf, publish_version |-> pv, sg_publish_data |-> sg]) :
        pf \in Optional({None, Folder(<<>>), Folder(<<"pub">>), Folder(<<"out">>)}),
        pv \in Optional({None} \cup {PyInt(n) : n \in 0..MaxVersion}),
        sg \in Optional({None, EmptyDict, [type |-> "dict", id |-> PyInt(7)]})}

Ancestors(parts) == {SubSeq(parts, 1, k) : k \in 1..Len(parts)}

(* --------------------------- the state machine ------------------------ *)

Init ==
    \E src \in SourcePaths :
    \E p \in Optional({None, src}) :
    \E c \in Optional(Contents) :
    \E old \in Optional({"old"}) :
        LET dstOld == FilePath(<<"out", "cache", "alembic">>, src.fields)
            files == (IF c.has THEN {src} ELSE {}) \cup (IF old.has THEN {dstOld} ELSE {})
        IN  /\ item = MakeDict([path |-> p])
            /\ parent \in ParentStates
            /\ fs = [q \in files |-> IF q = src /\ c.has THEN c.v ELSE "old"]
            /\ dirs = Ancestors(src.parts)
                        \cup (IF old.has THEN Ancestors(dstOld.parts) ELSE {})
            /\ registry = <<>>
            /\ log = <<>>
            /\ phase = "collected"
            /\ result = None
            /\ raised = "none"
            /\ run = 1
            /\ settings \in SettingsStates
            /\ completed = 0

accept ==
    /\ phase = "collected"
    /\ result' = accept_result(item)
    /\ log' = log \o accept_log(item)
    /\ phase' = IF accept_result(item).accepted THEN "accepted" ELSE "rejected"
    /\ UNCHANGED <<item, parent, fs, dirs, registry, raised, run, settings, completed>>

validate ==
    /\ phase = "accepted"
    /\ result' = validate_result(item)
    /\ phase' = IF validate_result(item).value THEN "validated" ELSE "rejected"
    /\ UNCHANGED <<item, parent, fs, dirs, registry, log, raised, run, settings, completed>>

publish ==
    /\ phase = "validated"
    /\ \E fault \in Faults :
        LET s == publish_outcome(
                    [fs |-> fs, dirs |-> dirs, registry |-> registry,
                     item |-> item, log |-> log, raised |-> "none",
                     settings |-> settings],
                    parent, fault)
        IN  /\ fs' = s.fs
            /\ dirs' = s.dirs
            /\ registry' = s.registry
            /\ item' = s.item
            /\ log' = s.log
            /\ raised' = s.raised
            /\ phase' = IF s.raised = "none" THEN "published" ELSE "failed"
    /\ result' = None
    /\ UNCHANGED <<parent, run, settings, completed>>

finalize ==
    /\ phase = "published"
    /\ log' = Append(log, [level |-> "info", msg |-> "Deleting"])
    /\ \E outcome \in DeleteOutcomes :
        \* a removal can only fail on a file that is there
        /\ outcome = "deleted" \/ finalize_path(item) \in DOMAIN fs
        /\ fs' = safe_delete_file(fs, finalize_path(item), outcome)
        /\ raised' = IF outcome = "raised" THEN "safe_delete_file" ELSE raised
        /\ phase' = IF outcome = "raised" THEN "failed" ELSE "finalized"
        /\ completed' = IF outcome = "raised" THEN completed ELSE completed + 1
    /\ result' = None
    /\ UNCHANGED <<item, parent, dirs, registry, run, settings>>

\* the host starts another publish run on a source file that is still on
\* disk, with a fresh item under the same parent
NewRun ==
    /\ phase \in {"rejected", "failed", "finalized"}
    /\ run < MaxRuns
    /\ "path" \in DOMAIN item
    /\ IsFilePath(item["path"])
    /\ item["path"] \in DOMAIN fs
    /\ item' = [path |-> item["path"]]
    /\ log' = <<>>
    /\ phase' = "collected"
    /\ result' = None
    /\ raised' = "none"
    /\ run' = run + 1
    /\ UNCHANGED <<parent, fs, dirs, registry, settings, completed>>

Next == accept \/ validate \/ publish \/ finalize \/ NewRun

Spec == Init /\ [][Next]_vars

(* ------------------------------ the claims ---------------------------- *)

\* the parent designates a publish folder (present and not empty)
HasPublishFolder ==
    /\ "publish_folder" \in DOMAIN parent
    /\ parent["publish_folder"] # None
    /\ parent["publish_folder"].parts # <<>>

\* <publish_folder>/cache/alembic/<filename> for the current item and parent
Destination ==
    FilePath(parent["publish_folder"].parts \o <<"cache", "alembic">>,
             item["path"].fields)

\* the record the last registration created
LastRecord == registry[Len(registry)]

\* C1: finalize removes exactly the file at the source path and never the
\* file at the registered publish path, with or without a parent publish
\* folder: whenever finalize removes a file, that file is the one at the
\* source path, and a publish path that referred to a file before
\* finalize still refers to one after it.
C1_FinalizeKeepsPublishPath ==
    [][(phase = "published" /\ LastRecord.args.path \in DOMAIN fs
          /\ fs' # fs)
         => /\ DOMAIN fs' = DOMAIN fs \ {item["path"]}
            /\ LastRecord.args.path \in DOMAIN fs']_vars

\* C2: the version registered and written back is the parent's
\* publish_version whenever the parent has one (0 included), else the
\* version parsed from the file name, else unset.
C2_VersionPreference ==
    phase = "published" =>
        LET expected == IF "publish_version" \in DOMAIN parent
                           /\ parent["publish_version"] # None
                        THEN parent["publish_version"]
                        ELSE get_file_path_components(item["path"]).version
        IN  /\ LastRecord.args.version_number = expected
            /\ item["publish_version"] = expected

\* C3: with a parent publish folder, publish creates
\* <publish_folder>/cache/alembic, copies the source file to <filename>
\* in it and registers that destination, not the source, as publish path.
C3_CopyToPublishFolder ==
    (phase = "published" /\ HasPublishFolder) =>
        /\ Destination.parts \in dirs
        /\ Destination \in DOMAIN fs
        /\ item["path"] \in DOMAIN fs
        /\ fs[Destination] = fs[item["path"]]
        /\ LastRecord.args.path = Destination
        /\ LastRecord.args.path # item["path"]

C3_Witness ==
    /\ phase = "published"
    /\ HasPublishFolder
    /\ fs[Destination] = "geo_b"

\* C4: without a parent publish folder (absent or empty), publish creates
\* no folder, copies no file, and registers the original path.
C4_PublishInPlace ==
    [][(phase = "validated" /\ ~HasPublishFolder)
         => /\ fs' = fs
            /\ dirs' = dirs
            /\ (phase' = "published"
                  => registry'[Len(registry')].args.path = item["path"])]_vars

C4_Witness ==
    /\ phase = "published"
    /\ "publish_folder" \in DOMAIN parent
    /\ ~HasPublishFolder
    /\ LastRecord.args.path = item["path"]

\* C5: accept returns accepted=False exactly when "path" is absent from
\* the properties, logging one error; otherwise accepted=True,
\* required=False, enabled=True; it changes neither properties nor files.
C5_Accept ==
    [][phase = "collected"
         => /\ IF "path" \in DOMAIN item
               THEN /\ result' = [accepted |-> TRUE, required |-> FALSE,
                                  enabled |-> TRUE]
                    /\ log' = log
                    /\ phase' = "accepted"
               ELSE /\ result' = [accepted |-> FALSE]
                    /\ Len(log') = Len(log) + 1
                    /\ log'[Len(log')].level = "error"
                    /\ phase' = "rejected"
            /\ raised' = "none"
            /\ item' = item
            /\ fs' = fs
            /\ dirs' = dirs]_vars

C5_Witness ==
    /\ phase = "accepted"
    /\ item["path"] = None
    /\ result = [accepted |-> TRUE, required |-> FALSE, enabled |-> TRUE]

\* C6: the record registered links to exactly the parent's published-file
\* id, and to nothing when the parent has no such id.
C6_DependencyOnParent ==
    phase = "published" =>
        LastRecord.args.dependency_ids =
            IF "sg_publish_data" \in DOMAIN parent
               /\ "id" \in DOMAIN parent["sg_publish_data"]
            THEN <<parent["sg_publish_data"].id>>
            ELSE <<>>

\* C7: accept, validate and publish leave the file at the source path as
\* it is (present, same content), whatever the publish folder, also when
\* its cache/alembic subfolder is the folder that holds the source file.
C7_SourceUntouched ==
    [][(phase \in {"collected", "accepted", "validated"}
          /\ "path" \in DOMAIN item /\ IsFilePath(item["path"]))
         => /\ (item["path"] \in DOMAIN fs') = (item["path"] \in DOMAIN fs)
            /\ (item["path"] \in DOMAIN fs
                  => fs'[item["path"]] = fs[item["path"]])]_vars

C7_Witness ==
    /\ phase = "failed"
    /\ raised = "copy_file"
    /\ HasPublishFolder
    /\ Destination = item["path"]
    /\ item["path"] \in DOMAIN fs

\* C8: after a successful publish the item's publish_version is the
\* version registered, its publish_folder is the folder of the registered
\* publish path and its sg_publish_data is the record registration returned.
C8_WriteBack ==
    phase = "published" =>
        /\ item["publish_version"] = LastRecord.args.version_number
        /\ item["publish_folder"] = Folder(LastRecord.args.path.parts)
        /\ item["sg_publish_data"] = LastRecord

C8_Witness ==
    /\ phase = "published"
    /\ HasPublishFolder
    /\ item["publish_folder"] # Folder(item["path"].parts)
    /\ item["publish_version"] # None

\* C9: a failure inside publish aborts the rest: when folder creation or
\* the copy fails nothing is registered and the properties are unchanged;
\* when the parent id lookup, the building of the arguments (a missing
\* setting, the thumbnail) or registration fails nothing is registered,
\* the properties are unchanged and the copy is on disk; a success has
\* registered one record after the copy completed.
C9_FailureAborts ==
    [][phase = "validated"
         => /\ phase' \in {"published", "failed"}
            /\ (phase' = "failed") = (raised' # "none")
            /\ (raised' \in {"get_file_path_components", "ensure_folder_exists",
                             "copy_file"}
                  => registry' = registry /\ item' = item)
            /\ (raised' \in {"parent_publish_id", "settings",
                             "get_thumbnail_as_path", "register_publish"}
                  => /\ registry' = registry
                     /\ item' = item
                     /\ (HasPublishFolder
                           => /\ Destination \in DOMAIN fs'
                              /\ fs'[Destination] = fs[item["path"]]))
            /\ (raised' = "none"
                  => /\ Len(registry') = Len(registry) + 1
                     /\ (HasPublishFolder
                           => /\ Destination \in DOMAIN fs'
                              /\ fs'[Destination] = fs[item["path"]])
                     /\ item'["sg_publish_data"] = registry'[Len(registry')])]_vars

C9_Witness ==
    /\ phase = "failed"
    /\ raised = "register_publish"
    /\ HasPublishFolder
    /\ Destination \in DOMAIN fs
    /\ fs[Destination] = fs[item["path"]]
    /\ DOMAIN item = {"path"}

\* C10: once accept, validate, publish and finalize have completed
\* without error there is no file at the source path, and over the publish
\* runs, each on a source file still on disk, at most one lifecycle
\* publishes the source.
C10_PublishedOnce ==
    /\ (phase = "finalized" => item["path"] \notin DOMAIN fs)
    /\ completed <= 1

====
